---- MODULE Spec2Model ----
(***************************************************************************)
(* ArrayVec<T, N>: the fixed-capacity inline vector of                     *)
(* personal/001-embedded-heapless_vector/src/lib.rs, with its owning       *)
(* iterator ArrayVecIntoIter<T, N> and both destructors.                   *)
(*                                                                         *)
(* A storage cell is a MaybeUninit<T>.  The model keeps the bits of a cell *)
(* (id, val) and, beside them, a tag `init` that says whether the cell     *)
(* currently owns a valid T.  The code never reads the tag (MaybeUninit    *)
(* has none): every method below decides from len / index only, exactly as *)
(* the source does, and the tag is only what the primitives of MaybeUninit *)
(* do to ownership.  Every element handed to try_push carries a fresh id,  *)
(* so that its fate can be followed.  ArrayVec is generic in T and never   *)
(* inspects an element, so the elements pushed are the driver's running    *)
(* count 1, 2, 3, ... and a store through an exclusive borrow adds 10.     *)
(*                                                                         *)
(* The bulk adapters (FromIterator, Extend) are called by the driver but   *)
(* their impls are not in lib.rs; extend and from_iter follow the          *)
(* description of the design document, on top of try_push.                 *)
(***************************************************************************)
EXTENDS Integers, Sequences, FiniteSets

\* ---------------------------------------------------------------- bounds
\* Capacity (the const generic N).
N == 3
\* Number of try_push calls in one run (accepted or rejected, direct or made
\* by a bulk adapter).
MaxPush == 4
\* Stores made through exclusive borrows in one run.
MaxStores == 1
\* Calls of next() made after the iterator is exhausted.
MaxExtraNext == 2
\* Longest source handed to from_iter / extend (longer than the capacity).
MaxSrc == 4

\* What the driver adds to an element through an exclusive borrow (*value += 10).
Bump == 10
Cells == 0..(N - 1)
\* Indices a caller may pass to get(): inside the prefix, in [len, N), and >= N.
Indices == 0..(N + 1)

VARIABLES
    arr_vec,    \* the ArrayVec: [values, len]
    arr_iter,   \* the ArrayVecIntoIter: [values, len, index]
    owner,      \* which object is alive: "vec", "iter" or "none" (destroyed)
    ret,        \* the last call: its name, argument and return value
    nextId,     \* id of the next element handed to try_push
    pushedOk,   \* the elements accepted by try_push, in order
    handed,     \* the elements moved out to the caller by pop / next, in order
    dropLog,    \* the destructor runs on cells, in order
    accLog,     \* the cell accesses of the last call
    ub,         \* some call read or destroyed a cell that owned no element
    shape,      \* "push": only pushes so far; "pop": pushes, then only pops; "other"
    stores,     \* stores made through exclusive borrows
    extraNext,  \* calls of next() made after exhaustion
    stack       \* the reference: a bounded stack of capacity N given the same calls

vars == <<arr_vec, arr_iter, owner, ret, nextId, pushedOk, handed, dropLog,
          accLog, ub, shape, stores, extraNext, stack>>

\* ------------------------------------------------------------ MaybeUninit
\* MaybeUninit::uninit(): garbage bits, owns nothing.
uninit == [id |-> 0, val |-> 0, init |-> FALSE]

\* MaybeUninit::write(value): the cell takes ownership of value.
write(value) == [id |-> value.id, val |-> value.val, init |-> TRUE]

\* What is left in a cell after assume_init_read / assume_init_drop: the bits
\* stay, the ownership is gone.
vacated(cell) == [cell EXCEPT !.init = FALSE]

\* The T found in a cell by a bitwise read.
bits(cell) == [id |-> cell.id, val |-> cell.val]

\* One access of cell i: kind is "ref" (borrow), "read" (assume_init_read) or
\* "drop" (assume_init_drop); init is whether the cell owned an element then.
access(kind, i, cell) == [kind |-> kind, cell |-> i, id |-> cell.id, init |-> cell.init]

\* Return values, in one shape.
None == [tag |-> "None", id |-> 0, val |-> 0, view |-> <<>>]
Some(v) == [tag |-> "Some", id |-> v.id, val |-> v.val, view |-> <<>>]
Ok == [tag |-> "Ok", id |-> 0, val |-> 0, view |-> <<>>]
Err(v) == [tag |-> "Err", id |-> v.id, val |-> v.val, view |-> <<>>]
Unit == [tag |-> "Unit", id |-> 0, val |-> 0, view |-> <<>>]
Slice(s) == [tag |-> "Slice", id |-> 0, val |-> 0, view |-> s]
\* (lower, Some(upper)), the pair size_hint returns.
Hint(lower, upper) == [tag |-> "Hint", id |-> 0, val |-> 0, view |-> <<lower, upper>>]

\* ---------------------------------------------------------------- ArrayVec
\* The cell at position i of the backing array; past the array lies memory that
\* holds no element.
cell(self, i) == IF i \in Cells THEN self.values[i] ELSE uninit

\* ArrayVec::new
new == [values |-> [i \in Cells |-> uninit], len |-> 0]

\* try_push without `self.len += 1`.
try_push_noinc(self, value) ==
    IF self.len = N
    THEN [self |-> self, ret |-> Err(value), acc |-> <<>>]
    ELSE [self |-> [values |-> [self.values EXCEPT ![self.len] = write(value)],
                    len |-> self.len],
          ret |-> Ok, acc |-> <<>>]

\* try_push that, when full, overwrites the last element instead of rejecting.
try_push_overwrite(self, value) ==
    IF self.len = N
    THEN [self |-> [values |-> [self.values EXCEPT ![N - 1] = write(value)],
                    len |-> self.len],
          ret |-> Ok, acc |-> <<>>]
    ELSE [self |-> [values |-> [self.values EXCEPT ![self.len] = write(value)],
                    len |-> self.len + 1],
          ret |-> Ok, acc |-> <<>>]

\* try_push with the full check one early (`self.len + 1 == N`).
try_push_early(self, value) ==
    IF self.len + 1 >= N
    THEN [self |-> self, ret |-> Err(value), acc |-> <<>>]
    ELSE [self |-> [values |-> [self.values EXCEPT ![self.len] = write(value)],
                    len |-> self.len + 1],
          ret |-> Ok, acc |-> <<>>]

\* try_push that, beside writing cell len, resets every cell after it.
try_push_scrub(self, value) ==
    IF self.len = N
    THEN [self |-> self, ret |-> Err(value), acc |-> <<>>]
    ELSE [self |-> [values |-> [i \in Cells |-> IF i = self.len THEN write(value)
                                                ELSE IF i > self.len THEN uninit
                                                ELSE self.values[i]],
                    len |-> self.len + 1],
          ret |-> Ok, acc |-> <<>>]

\* ArrayVec::try_push
try_push(self, value) ==
    IF self.len = N
    THEN [self |-> self, ret |-> Err(value), acc |-> <<>>]
    ELSE [self |-> [values |-> [self.values EXCEPT ![self.len] = write(value)],
                    len |-> self.len + 1],
          ret |-> Ok, acc |-> <<>>]

\* get with the bounds check against the capacity N instead of len.
get_boundN(self, index) ==
    IF index >= N
    THEN [self |-> self, ret |-> None, acc |-> <<>>]
    ELSE [self |-> self, ret |-> Some(bits(self.values[index])),
          acc |-> <<access("ref", index, self.values[index])>>]

\* get with `index > self.len` for `index >= self.len`.
get_offbyone(self, index) ==
    IF index > self.len
    THEN [self |-> self, ret |-> None, acc |-> <<>>]
    ELSE [self |-> self, ret |-> Some(bits(cell(self, index))),
          acc |-> <<access("ref", index, cell(self, index))>>]

\* ArrayVec::get
get(self, index) ==
    IF index >= self.len
    THEN [self |-> self, ret |-> None, acc |-> <<>>]
    ELSE [self |-> self, ret |-> Some(bits(self.values[index])),
          acc |-> <<access("ref", index, self.values[index])>>]

\* pop without `self.len -= 1`: the last element is read and len stays.
pop_nodec(self) ==
    IF self.len = 0
    THEN [self |-> self, ret |-> None, acc |-> <<>>]
    ELSE LET l == self.len - 1
             c == self.values[l]
         IN  [self |-> [values |-> [self.values EXCEPT ![l] = vacated(c)], len |-> self.len],
              ret |-> Some(bits(c)),
              acc |-> <<access("read", l, c)>>]

\* pop without the `self.len == 0` check.
pop_nocheck(self) ==
    LET l == self.len - 1
        c == cell(self, l)
    IN  [self |-> [values |-> [i \in Cells |-> IF i = l THEN vacated(c) ELSE self.values[i]],
                   len |-> l],
         ret |-> Some(bits(c)),
         acc |-> <<access("read", l, c)>>]

\* pop that reads values[len] before decrementing len.
pop_readlen(self) ==
    IF self.len = 0
    THEN [self |-> self, ret |-> None, acc |-> <<>>]
    ELSE LET l == self.len
             c == cell(self, l)
         IN  [self |-> [values |-> [i \in Cells |-> IF i = l THEN vacated(c)
                                                             ELSE self.values[i]],
                        len |-> self.len - 1],
              ret |-> Some(bits(c)),
              acc |-> <<access("read", l, c)>>]

\* pop that takes the element at the front (cell 0) instead of the last one.
pop_first(self) ==
    IF self.len = 0
    THEN [self |-> self, ret |-> None, acc |-> <<>>]
    ELSE LET c == self.values[0]
         IN  [self |-> [values |-> [self.values EXCEPT ![0] = vacated(c)],
                        len |-> self.len - 1],
              ret |-> Some(bits(c)),
              acc |-> <<access("read", 0, c)>>]

\* ArrayVec::pop
pop(self) ==
    IF self.len = 0
    THEN [self |-> self, ret |-> None, acc |-> <<>>]
    ELSE LET l == self.len - 1
             c == self.values[l]
         IN  [self |-> [values |-> [self.values EXCEPT ![l] = vacated(c)], len |-> l],
              ret |-> Some(bits(c)),
              acc |-> <<access("read", l, c)>>]

\* slice::from_raw_parts(ptr, n): a view of n consecutive cells from cell 0.
from_raw_parts(self, n) ==
    [view |-> [k \in 1..n |-> bits(cell(self, k - 1))],
     acc |-> [k \in 1..n |-> access("ref", k - 1, cell(self, k - 1))]]

\* as_slice over the whole backing array (N cells) instead of the first len.
as_slice_capacity(self) ==
    LET s == from_raw_parts(self, N)
    IN  [self |-> self, ret |-> Slice(s.view), acc |-> s.acc]

\* ArrayVec::as_slice
as_slice(self) ==
    LET s == from_raw_parts(self, self.len)
    IN  [self |-> self, ret |-> Slice(s.view), acc |-> s.acc]

\* as_mut_slice over the whole backing array (N cells) instead of the first len.
as_mut_slice_capacity(self) ==
    LET s == from_raw_parts(self, N)
    IN  [self |-> self, ret |-> Slice(s.view), acc |-> s.acc]

\* ArrayVec::as_mut_slice
as_mut_slice(self) ==
    LET s == from_raw_parts(self, self.len)
    IN  [self |-> self, ret |-> Slice(s.view), acc |-> s.acc]

\* ArrayVec::iter
iter(self) == as_slice(self)

\* ArrayVec::iter_mut
iter_mut(self) == as_mut_slice(self)

\* <&ArrayVec as IntoIterator>::into_iter
into_iter_ref(self) == as_slice(self)

\* <&mut ArrayVec as IntoIterator>::into_iter
into_iter_mut(self) == as_mut_slice(self)

\* A store through an exclusive borrow: the element at position p of the view
\* becomes v.
store(self, p, v) ==
    IF p \in Cells
    THEN [self EXCEPT !.values[p].val = v]
    ELSE self

\* The container's destructor sweeping 0..N instead of 0..len.
drop_ArrayVec_capacity(self) ==
    [self |-> [self EXCEPT !.values = [i \in Cells |-> vacated(self.values[i])]],
     ret |-> Unit,
     acc |-> [k \in 1..N |-> access("drop", k - 1, cell(self, k - 1))]]

\* <ArrayVec as Drop>::drop: for i in 0..len { values[i].assume_init_drop() }
drop_ArrayVec(self) ==
    [self |-> [self EXCEPT !.values =
                  [i \in Cells |-> IF i < self.len THEN vacated(self.values[i])
                                                   ELSE self.values[i]]],
     ret |-> Unit,
     acc |-> [k \in 1..self.len |-> access("drop", k - 1, cell(self, k - 1))]]

\* ----------------------------------------------------------- bulk adapters
\* Absorb-from-sequence (Extend): try_push for each item of the source, in
\* order, until the source is exhausted or the container is at capacity; a
\* capacity error of try_push ends the absorption silently.  `taken` counts the
\* items absorbed.
RECURSIVE extend(_, _)
extend(self, items) ==
    IF items = <<>> \/ self.len = N
    THEN [self |-> self, ret |-> Unit, taken |-> 0]
    ELSE LET r == try_push(self, Head(items))
         IN  IF r.ret.tag = "Err"
             THEN [self |-> r.self, ret |-> Unit, taken |-> 0]
             ELSE LET rest == extend(r.self, Tail(items))
                  IN  [self |-> rest.self, ret |-> Unit, taken |-> rest.taken + 1]

\* Build-from-sequence (FromIterator): an empty container absorbs the source.
from_iter(items) == extend(new, items)

\* -------------------------------------------------------- ArrayVecIntoIter
\* The iterator object before into_iter has built one.
no_iter == [values |-> [i \in Cells |-> uninit], len |-> 0, index |-> 0]

\* next with `self.index > self.len` for `self.index >= self.len`.
next_offbyone(self) ==
    IF self.index > self.len
    THEN [self |-> self, ret |-> None, acc |-> <<>>]
    ELSE LET i == self.index
             c == cell(self, i)
         IN  [self |-> [values |-> [j \in Cells |-> IF j = i THEN vacated(c)
                                                             ELSE self.values[j]],
                        len |-> self.len,
                        index |-> self.index + 1],
              ret |-> Some(bits(c)),
              acc |-> <<access("read", i, c)>>]

\* next without `self.index += 1`.
next_noinc(self) ==
    IF self.index >= self.len
    THEN [self |-> self, ret |-> None, acc |-> <<>>]
    ELSE LET i == self.index
             c == cell(self, i)
         IN  [self |-> [values |-> [self.values EXCEPT ![i] = vacated(c)],
                        len |-> self.len,
                        index |-> self.index],
              ret |-> Some(bits(c)),
              acc |-> <<access("read", i, c)>>]

\* <ArrayVecIntoIter as Iterator>::next
next(self) ==
    IF self.index >= self.len
    THEN [self |-> self, ret |-> None, acc |-> <<>>]
    ELSE LET i == self.index
             c == cell(self, i)
         IN  [self |-> [values |-> [self.values EXCEPT ![i] = vacated(c)],
                        len |-> self.len,
                        index |-> self.index + 1],
              ret |-> Some(bits(c)),
              acc |-> <<access("read", i, c)>>]

\* usize::saturating_sub
saturating_sub(a, b) == IF a >= b THEN a - b ELSE 0

\* size_hint reporting len instead of what remains.
size_hint_len(self) ==
    [self |-> self, ret |-> Hint(self.len, self.len), acc |-> <<>>]

\* <ArrayVecIntoIter as Iterator>::size_hint
size_hint(self) ==
    LET remaining == saturating_sub(self.len, self.index)
    IN  [self |-> self, ret |-> Hint(remaining, remaining), acc |-> <<>>]

\* The iterator's destructor sweeping 0..len instead of index..len.
drop_ArrayVecIntoIter_all(self) ==
    [self |-> [self EXCEPT !.values =
                  [i \in Cells |-> IF i < self.len THEN vacated(self.values[i])
                                                   ELSE self.values[i]]],
     ret |-> Unit,
     acc |-> [k \in 1..self.len |-> access("drop", k - 1, cell(self, k - 1))]]

\* <ArrayVecIntoIter as Drop>::drop:
\* debug_assert!(index <= len); for i in index..len { values[i].assume_init_drop() }
drop_ArrayVecIntoIter(self) ==
    [self |-> [self EXCEPT !.values =
                  [i \in Cells |-> IF self.index <= i /\ i < self.len
                                   THEN vacated(self.values[i])
                                   ELSE self.values[i]]],
     ret |-> IF self.index <= self.len THEN Unit
             ELSE [Unit EXCEPT !.tag = "AssertFailed"],
     acc |-> [k \in 1..(IF self.len > self.index THEN self.len - self.index ELSE 0) |->
                 access("drop", self.index + k - 1, cell(self, self.index + k - 1))]]

\* into_iter without ManuallyDrop: the source is copied out of and then destroyed
\* as an ordinary local.
into_iter_armed(self) ==
    [this |-> self,
     armed |-> TRUE,
     iter |-> [values |-> self.values, len |-> self.len, index |-> 0]]

\* <ArrayVec as IntoIterator>::into_iter.  `this` is the source after the two
\* ptr::read: its bits stay, its elements are moved to the iterator; `armed`
\* says whether the source's destructor still runs (ManuallyDrop::new: no).
into_iter(self) ==
    [this |-> [self EXCEPT !.values = [i \in Cells |-> vacated(self.values[i])]],
     armed |-> FALSE,
     iter |-> [values |-> self.values, len |-> self.len, index |-> 0]]

\* ------------------------------------------------- the reference stack
\* A bounded stack of capacity N, as a sequence with its top at the end.
stack_push(st, v) == IF Len(st) < N THEN Append(st, v) ELSE st

stack_pop(st) == IF st = <<>> THEN st ELSE SubSeq(st, 1, Len(st) - 1)

stack_store(st, p, v) == IF p \in 1..Len(st) THEN [st EXCEPT ![p].val = v] ELSE st

RECURSIVE stack_push_all(_, _)
stack_push_all(st, items) ==
    IF items = <<>> THEN st
    ELSE stack_push_all(stack_push(st, Head(items)), Tail(items))

\* ------------------------------------------------------------ the calls
\* The record of a call: its name, its arguments (index / value, -1 and 0 when it
\* has none) and what it returned.
Call(op, index, value, r) ==
    [op |-> op, index |-> index, value |-> value,
     tag |-> r.tag, id |-> r.id, val |-> r.val, view |-> r.view]

IsDrop(a) == a.kind = "drop"

\* What the cell accesses of a call do to the bookkeeping.
Logged(acc) ==
    /\ accLog' = acc
    /\ ub' = (ub \/ \E k \in 1..Len(acc) : ~acc[k].init)
    /\ dropLog' = dropLog \o SelectSeq(acc, IsDrop)

Init ==
    /\ arr_vec = new
    /\ arr_iter = no_iter
    /\ owner = "vec"
    /\ ret = Call("new", -1, 0, Unit)
    /\ nextId = 1
    /\ pushedOk = <<>>
    /\ handed = <<>>
    /\ dropLog = <<>>
    /\ accLog = <<>>
    /\ ub = FALSE
    /\ shape = "push"
    /\ stores = 0
    /\ extraNext = 0
    /\ stack = <<>>

TryPush ==
    /\ owner = "vec"
    /\ nextId <= MaxPush
    /\ LET value == [id |-> nextId, val |-> nextId]
           r == try_push(arr_vec, value)
       IN  /\ arr_vec' = r.self
           /\ ret' = Call("try_push", -1, value.val, r.ret)
           /\ pushedOk' = IF r.ret.tag = "Ok" THEN Append(pushedOk, value) ELSE pushedOk
           /\ Logged(r.acc)
    /\ nextId' = nextId + 1
    /\ stack' = stack_push(stack, [id |-> nextId, val |-> nextId])
    /\ shape' = IF shape = "push" THEN "push" ELSE "other"
    /\ UNCHANGED <<arr_iter, owner, handed, stores, extraNext>>

Get ==
    \E i \in Indices :
        /\ owner = "vec"
        /\ LET r == get(arr_vec, i)
           IN  /\ arr_vec' = r.self
               /\ ret' = Call("get", i, 0, r.ret)
               /\ Logged(r.acc)
        /\ UNCHANGED <<arr_iter, owner, nextId, pushedOk, handed, shape, stores, extraNext, stack>>

Pop ==
    /\ owner = "vec"
    /\ LET r == pop(arr_vec)
       IN  /\ arr_vec' = r.self
           /\ ret' = Call("pop", -1, 0, r.ret)
           /\ handed' = IF r.ret.tag = "Some"
                        THEN Append(handed, [op |-> "pop", id |-> r.ret.id, val |-> r.ret.val])
                        ELSE handed
           /\ Logged(r.acc)
    /\ stack' = stack_pop(stack)
    /\ shape' = IF shape \in {"push", "pop"} THEN "pop" ELSE "other"
    /\ UNCHANGED <<arr_iter, owner, nextId, pushedOk, stores, extraNext>>

\* A shared borrow of the live prefix: the caller only looks.
Shared(op, r) ==
    /\ owner = "vec"
    /\ arr_vec' = r.self
    /\ ret' = Call(op, -1, 0, r.ret)
    /\ Logged(r.acc)
    /\ UNCHANGED <<arr_iter, owner, nextId, pushedOk, handed, shape, stores, extraNext, stack>>

\* An exclusive borrow of the live prefix: the caller adds Bump to the element at
\* one position of the view it was given, or only looks.
Exclusive(op, r) ==
    /\ owner = "vec"
    /\ \/ /\ arr_vec' = r.self
          /\ ret' = Call(op, -1, 0, r.ret)
          /\ UNCHANGED <<shape, stores, stack>>
       \/ /\ stores < MaxStores
          /\ \E p \in 1..Len(r.ret.view) :
                /\ arr_vec' = store(r.self, p - 1, r.ret.view[p].val + Bump)
                /\ ret' = Call(op, p - 1, r.ret.view[p].val + Bump, r.ret)
                /\ stack' = stack_store(stack, p, r.ret.view[p].val + Bump)
          /\ shape' = "other"
          /\ stores' = stores + 1
    /\ Logged(r.acc)
    /\ UNCHANGED <<arr_iter, owner, nextId, pushedOk, handed, extraNext>>

AsSlice == Shared("as_slice", as_slice(arr_vec))

Iter == Shared("iter", iter(arr_vec))

IntoIterRef == Shared("into_iter_ref", into_iter_ref(arr_vec))

AsMutSlice == Exclusive("as_mut_slice", as_mut_slice(arr_vec))

IterMut == Exclusive("iter_mut", iter_mut(arr_vec))

IntoIterMut == Exclusive("into_iter_mut", into_iter_mut(arr_vec))

\* The source the driver hands to a bulk adapter: its running count, s items.
Source(s) == [k \in 1..s |-> [id |-> nextId + k - 1, val |-> nextId + k - 1]]

\* The driver builds its container from a source instead of pushing into the
\* new one.
FromIter ==
    \E s \in 0..MaxSrc :
        /\ owner = "vec" /\ ret.op = "new"
        /\ LET r == from_iter(Source(s))
           IN  /\ nextId + r.taken - 1 <= MaxPush
               /\ arr_vec' = r.self
               /\ ret' = Call("from_iter", -1, s, r.ret)
               /\ pushedOk' = pushedOk \o SubSeq(Source(s), 1, r.taken)
               /\ nextId' = nextId + r.taken
               /\ Logged(<<>>)
        /\ stack' = stack_push_all(<<>>, Source(s))
        /\ UNCHANGED <<arr_iter, owner, handed, shape, stores, extraNext>>

\* The container absorbs a source.
Extend ==
    \E s \in 0..MaxSrc :
        /\ owner = "vec"
        /\ LET r == extend(arr_vec, Source(s))
           IN  /\ nextId + r.taken - 1 <= MaxPush
               /\ arr_vec' = r.self
               /\ ret' = Call("extend", -1, s, r.ret)
               /\ pushedOk' = pushedOk \o SubSeq(Source(s), 1, r.taken)
               /\ nextId' = nextId + r.taken
               /\ shape' = IF r.taken = 0 \/ shape = "push" THEN shape ELSE "other"
               /\ Logged(<<>>)
        /\ stack' = stack_push_all(stack, Source(s))
        /\ UNCHANGED <<arr_iter, owner, handed, stores, extraNext>>

\* The container goes out of scope.
DropVec ==
    /\ owner = "vec"
    /\ LET r == drop_ArrayVec(arr_vec)
       IN  /\ arr_vec' = r.self
           /\ ret' = Call("drop_vec", -1, 0, r.ret)
           /\ Logged(r.acc)
    /\ owner' = "none"
    /\ UNCHANGED <<arr_iter, nextId, pushedOk, handed, shape, stores, extraNext, stack>>

\* The container is consumed by value.  An armed source would be destroyed as
\* into_iter returns.
IntoIter ==
    /\ owner = "vec"
    /\ LET r == into_iter(arr_vec)
           d == drop_ArrayVec(r.this)
       IN  /\ arr_vec' = IF r.armed THEN d.self ELSE r.this
           /\ arr_iter' = r.iter
           /\ ret' = Call("into_iter", -1, 0, Unit)
           /\ Logged(IF r.armed THEN d.acc ELSE <<>>)
    /\ owner' = "iter"
    /\ shape' = "other"
    /\ UNCHANGED <<nextId, pushedOk, handed, stores, extraNext, stack>>

Next_ ==
    /\ owner = "iter"
    /\ arr_iter.index >= arr_iter.len => extraNext < MaxExtraNext
    /\ LET r == next(arr_iter)
       IN  /\ arr_iter' = r.self
           /\ ret' = Call("next", -1, 0, r.ret)
           /\ handed' = IF r.ret.tag = "Some"
                        THEN Append(handed, [op |-> "next", id |-> r.ret.id, val |-> r.ret.val])
                        ELSE handed
           /\ extraNext' = IF r.ret.tag = "Some" THEN extraNext ELSE extraNext + 1
           /\ Logged(r.acc)
    /\ UNCHANGED <<arr_vec, owner, nextId, pushedOk, shape, stores, stack>>

SizeHint ==
    /\ owner = "iter"
    /\ LET r == size_hint(arr_iter)
       IN  /\ arr_iter' = r.self
           /\ ret' = Call("size_hint", -1, 0, r.ret)
           /\ Logged(r.acc)
    /\ UNCHANGED <<arr_vec, owner, nextId, pushedOk, handed, shape, stores, extraNext, stack>>

\* The owning iterator goes out of scope.
DropIter ==
    /\ owner = "iter"
    /\ LET r == drop_ArrayVecIntoIter(arr_iter)
       IN  /\ arr_iter' = r.self
           /\ ret' = Call("drop_iter", -1, 0, r.ret)
           /\ Logged(r.acc)
    /\ owner' = "none"
    /\ UNCHANGED <<arr_vec, nextId, pushedOk, handed, shape, stores, extraNext, stack>>

Next ==
    \/ TryPush
    \/ Get
    \/ Pop
    \/ AsSlice
    \/ AsMutSlice
    \/ Iter
    \/ IterMut
    \/ IntoIterRef
    \/ IntoIterMut
    \/ FromIter
    \/ Extend
    \/ DropVec
    \/ IntoIter
    \/ Next_
    \/ SizeHint
    \/ DropIter

Spec == Init /\ [][Next]_vars

\* The driver's loop over the owning iterator (main, section C): next is called
\* until it returns None, then the loop breaks and the iterator goes out of
\* scope.  The loop itself never stops between two calls.
Broke == ret.op = "next" /\ ret.tag = "None"

LoopStep == ~Broke /\ Next_

LoopExit == Broke /\ DropIter

LoopNext ==
    \/ TryPush
    \/ Pop
    \/ IntoIter
    \/ LoopStep
    \/ LoopExit

LoopSpec == Init /\ [][LoopNext]_vars /\ WF_vars(LoopStep)

\* ------------------------------------------------------------ properties
\* The ids of the records of a sequence.
Ids(seq) == {seq[k].id : k \in 1..Len(seq)}

\* How many records of a sequence carry the id.
Count(seq, id) == Cardinality({k \in 1..Len(seq) : seq[k].id = id})

\* The cells of the live owner that own an element.
OwnedCells ==
    IF owner = "vec" THEN {i \in Cells : arr_vec.values[i].init}
    ELSE IF owner = "iter" THEN {i \in Cells : arr_iter.values[i].init}
    ELSE {}

\* The storage of the live owner.
Storage == IF owner = "iter" THEN arr_iter.values ELSE arr_vec.values

\* The elements next() has yielded, in order.
IsNext(h) == h.op = "next"
Yielded == SelectSeq(handed, IsNext)

\* C1: every element accepted by try_push has at most one fate at any moment
\* (handed to the caller once by pop or next, or destroyed once by a destructor,
\* never both and never twice); while its owner lives an element without a fate
\* sits in exactly one owned cell; and once the owner is destroyed every accepted
\* element has exactly one fate (nothing leaks).
ExactlyOnceRelease ==
    \A k \in 1..Len(pushedOk) :
        LET id == pushedOk[k].id
            fates == Count(handed, id) + Count(dropLog, id)
        IN  /\ fates <= 1
            /\ owner = "none" => fates = 1
            /\ owner # "none" =>
                  Cardinality({i \in OwnedCells : Storage[i].id = id}) = 1 - fates

\* C1 witness: the iterator was destroyed after an early stop, with one element
\* popped, one yielded by next and one destroyed by the destructor.
ExactlyOnceReleaseWitness ==
    /\ owner = "none"
    /\ ret.op = "drop_iter"
    /\ \E a, b \in 1..Len(handed) : handed[a].op = "pop" /\ handed[b].op = "next"
    /\ dropLog # <<>>

\* C2: while the container lives, 0 <= len <= N, every cell below len owns an
\* element and every cell from len on owns none (I1 and I2).
LivePrefix ==
    owner = "vec" =>
        /\ 0 <= arr_vec.len /\ arr_vec.len <= N
        /\ \A i \in Cells : arr_vec.values[i].init <=> i < arr_vec.len

\* C2 witness: a pop has just vacated the last cell of a full container.
LivePrefixWitness ==
    /\ owner = "vec"
    /\ ret.op = "pop" /\ ret.tag = "Some"
    /\ arr_vec.len = N - 1
    /\ arr_vec.values[N - 1].id # 0

\* C3: no call ever reads, borrows or destroys a cell that owns no element at
\* that moment.
NoUninitAccess ==
    /\ ub = FALSE
    /\ \A k \in 1..Len(accLog) : accLog[k].init

\* C3 witness: get was asked for a cell that an earlier pop vacated.
NoUninitAccessWitness ==
    /\ owner = "vec"
    /\ ret.op = "get"
    /\ ret.index >= arr_vec.len /\ ret.index < N
    /\ arr_vec.values[ret.index].id # 0

\* C4: after any sequence of try_push calls on a new container (no pop, store
\* or consumption yet), len is the number of pushes that returned Ok and get(i)
\* returns the element of the i-th such push, for every i below that number;
\* when pops follow the pushes, get(i) still returns the element of the i-th
\* accepted push for every i that the pops have not removed.
PushThenGet ==
    /\ (owner = "vec" /\ shape = "push") =>
          /\ arr_vec.len = Len(pushedOk)
          /\ (ret.op = "get" /\ ret.index < Len(pushedOk)) =>
                /\ ret.tag = "Some"
                /\ ret.id = pushedOk[ret.index + 1].id
                /\ ret.val = pushedOk[ret.index + 1].val
    /\ (owner = "vec" /\ shape \in {"push", "pop"}) =>
          \A i \in 0..(Len(pushedOk) - 1) :
              i < Len(pushedOk) - Len(handed) =>
                  get(arr_vec, i).ret = Some(pushedOk[i + 1])

\* C4 witness: the container was filled, one more push was rejected, and get
\* has just returned the last accepted element.
PushThenGetWitness ==
    /\ owner = "vec" /\ shape = "push"
    /\ Len(pushedOk) = N /\ nextId > N + 1
    /\ ret.op = "get" /\ ret.index = N - 1 /\ ret.tag = "Some"

\* The elements try_push has rejected so far.
Rejected == (1..(nextId - 1)) \ Ids(pushedOk)

\* C5: a try_push on a full container returns Err with exactly the value it was
\* given and leaves len, every cell and every element's fate unchanged; and a
\* rejected element is never stored in a cell, handed out or destroyed by the
\* container or its iterator.
RejectWhenFull ==
    /\ [][(owner = "vec" /\ arr_vec.len = N /\ nextId' # nextId) =>
            /\ ret'.op = "try_push" /\ ret'.tag = "Err"
            /\ ret'.id = nextId /\ ret'.val = ret'.value
            /\ arr_vec' = arr_vec
            /\ pushedOk' = pushedOk /\ handed' = handed /\ dropLog' = dropLog]_vars
    /\ [](\A id \in Rejected :
            /\ \A i \in Cells : arr_vec.values[i].id # id /\ arr_iter.values[i].id # id
            /\ id \notin Ids(handed) /\ id \notin Ids(dropLog))

\* C5 witness: a push on a full container has just been rejected.
RejectWhenFullWitness ==
    /\ owner = "vec" /\ arr_vec.len = N
    /\ ret.op = "try_push" /\ ret.tag = "Err" /\ ret.id = N + 1

\* C6: pop on an empty container returns None and changes nothing of the
\* container, whatever came before.
PopEmpty ==
    [][(owner = "vec" /\ arr_vec.len = 0 /\ ret'.op = "pop") =>
          /\ ret'.tag = "None"
          /\ arr_vec' = arr_vec
          /\ handed' = handed /\ dropLog' = dropLog]_vars

\* C6 witness: pop has just returned None on a container that pushes and pops
\* had filled and emptied before.
PopEmptyWitness ==
    /\ owner = "vec" /\ arr_vec.len = 0
    /\ ret.op = "pop" /\ ret.tag = "None"
    /\ Len(handed) = N

\* C7: when k pushes onto the empty container are followed only by pops, the
\* j-th pop returns the element of push k+1-j and len is k minus the number of
\* elements popped; after k pops the container is empty.
Lifo ==
    shape = "pop" =>
        LET k == Len(pushedOk) IN
        /\ Len(handed) <= k
        /\ arr_vec.len = k - Len(handed)
        /\ \A j \in 1..Len(handed) :
              handed[j] = [op |-> "pop", id |-> pushedOk[k + 1 - j].id,
                           val |-> pushedOk[k + 1 - j].val]
        /\ Len(handed) = k => arr_vec.len = 0

\* C7 witness: N pushes, then N pops.
LifoWitness ==
    /\ shape = "pop"
    /\ Len(pushedOk) = N /\ Len(handed) = N
    /\ ret.op = "pop" /\ ret.tag = "Some"

\* C8: get(index) returns the element held in cell index when index < len and
\* None for every index >= len (in [len, N) and >= N alike), and changes
\* neither len nor any cell.
GetInBounds ==
    [][(owner = "vec" /\ ret'.op = "get") =>
          /\ arr_vec' = arr_vec
          /\ IF ret'.index < arr_vec.len
             THEN /\ ret'.tag = "Some"
                  /\ ret'.id = arr_vec.values[ret'.index].id
                  /\ ret'.val = arr_vec.values[ret'.index].val
             ELSE ret'.tag = "None"]_vars

\* C8 witness: get(len) with len < N, on a cell that held an element before,
\* has returned None.
GetInBoundsWitness ==
    /\ owner = "vec"
    /\ ret.op = "get" /\ ret.tag = "None"
    /\ ret.index = arr_vec.len /\ arr_vec.len > 0 /\ arr_vec.len < N
    /\ arr_vec.values[ret.index].id # 0 /\ stores > 0

\* C9: the owning iterator yields the elements the container held when it was
\* consumed, cell 0 first, each once; next returns None exactly from the call
\* after the last element on, however often it is called.
YieldsInOrder ==
    owner # "vec" =>
        LET k == arr_vec.len
            y == Yielded
        IN  /\ Len(y) <= k
            /\ \A j \in 1..Len(y) :
                  /\ y[j].id = arr_vec.values[j - 1].id
                  /\ y[j].val = arr_vec.values[j - 1].val
            /\ (ret.op = "next" /\ ret.tag = "None") => Len(y) = k
            /\ (ret.op = "next" /\ ret.tag = "Some") =>
                  /\ Len(y) >= 1 /\ ret.id = y[Len(y)].id /\ ret.val = y[Len(y)].val
                  /\ extraNext = 0
            /\ (ret.op = "next" /\ Len(y) < k) => ret.tag = "Some"
            /\ extraNext > 0 => Len(y) = k

\* C9 witness: a full container was consumed, all N elements were yielded and
\* next was called twice more.
YieldsInOrderWitness ==
    /\ owner = "iter"
    /\ arr_vec.len = N /\ Len(Yielded) = N
    /\ extraNext = 2
    /\ ret.op = "next" /\ ret.tag = "None"

\* C10: the destructor of the owning iterator destroys exactly the cells
\* index..len-1, in that order and each once, all of them owning an element,
\* and none of the elements of cells 0..index-1, which next has yielded.
IterDropRemainder ==
    ret.op = "drop_iter" =>
        LET c == arr_iter.index
            l == arr_iter.len
        IN  /\ c <= l
            /\ Len(dropLog) = l - c
            /\ \A k \in 1..Len(dropLog) :
                  /\ dropLog[k].cell = c + k - 1
                  /\ dropLog[k].id = arr_vec.values[c + k - 1].id
                  /\ dropLog[k].init
            /\ \A i \in 0..(c - 1) :
                  /\ arr_vec.values[i].id \notin Ids(dropLog)
                  /\ Count(handed, arr_vec.values[i].id) = 1

\* C10 witness: the iterator was destroyed after an early stop, with elements
\* both yielded and left.
IterDropRemainderWitness ==
    /\ ret.op = "drop_iter"
    /\ arr_iter.index > 0 /\ arr_iter.index < arr_iter.len
    /\ Len(dropLog) >= 2

\* C11: into_iter hands the iterator the source's cells and len as they are,
\* with index 0, and runs no destructor; while the iterator lives nothing has
\* been destroyed; and at every moment a cell position owns an element in at
\* most one of the two objects, and only in the object that is alive.
Disarmed ==
    /\ [][(owner = "vec" /\ owner' = "iter") =>
            /\ arr_iter'.values = arr_vec.values
            /\ arr_iter'.len = arr_vec.len
            /\ arr_iter'.index = 0
            /\ arr_vec'.len = arr_vec.len
            /\ \A i \in Cells : bits(arr_vec'.values[i]) = bits(arr_vec.values[i])
            /\ dropLog' = dropLog /\ handed' = handed]_vars
    /\ [](owner = "iter" => dropLog = <<>>)
    /\ [](\A i \in Cells :
            /\ ~(arr_vec.values[i].init /\ arr_iter.values[i].init)
            /\ arr_vec.values[i].init => owner = "vec"
            /\ arr_iter.values[i].init => owner = "iter")

\* C11 witness: a full container has just been consumed.
DisarmedWitness ==
    /\ owner = "iter" /\ ret.op = "into_iter"
    /\ arr_iter.len = N /\ arr_iter.index = 0
    /\ \A i \in Cells : arr_iter.values[i].init /\ ~arr_vec.values[i].init

\* C12: the destructor of a container that was not consumed destroys the cells
\* 0, 1, ..., len-1 in this order, each once and each owning an element, touches
\* no cell from len on, and destroys no element that pop or next handed out.
VecDropPrefix ==
    ret.op = "drop_vec" =>
        /\ Len(dropLog) = arr_vec.len
        /\ \A k \in 1..Len(dropLog) :
              /\ dropLog[k].cell = k - 1
              /\ dropLog[k].id = arr_vec.values[k - 1].id
              /\ dropLog[k].init
        /\ \A j \in 1..Len(handed) : handed[j].id \notin Ids(dropLog)

\* C12 witness: a container with two elements and a cell vacated by pop was
\* destroyed.
VecDropPrefixWitness ==
    /\ ret.op = "drop_vec"
    /\ arr_vec.len = 2
    /\ handed # <<>>
    /\ arr_vec.values[2].id # 0

ViewOps == {"as_slice", "as_mut_slice", "iter", "iter_mut", "into_iter_ref", "into_iter_mut"}

\* C13: every borrow view (as_slice, as_mut_slice, iter, iter_mut and the two
\* by-reference into_iter) presents exactly len items, item k being the element
\* of cell k-1, and borrows no cell from len on.
ViewIsLivePrefix ==
    [][(owner = "vec" /\ ret'.op \in ViewOps) =>
          /\ Len(ret'.view) = arr_vec.len
          /\ \A k \in 1..Len(ret'.view) :
                /\ k - 1 \in Cells
                /\ ret'.view[k] = bits(arr_vec.values[k - 1])
                /\ arr_vec.values[k - 1].init
          /\ \A k \in 1..Len(accLog') : accLog'[k].cell < arr_vec.len
          /\ arr_vec'.len = arr_vec.len]_vars

\* C13 witness: a by-reference into_iter has presented two elements while the
\* third cell holds the stale bits of a popped element.
ViewIsLivePrefixWitness ==
    /\ owner = "vec" /\ ret.op = "into_iter_ref"
    /\ Len(ret.view) = 2 /\ arr_vec.len = 2
    /\ arr_vec.values[2].id # 0

MutOps == {"as_mut_slice", "iter_mut", "into_iter_mut"}

\* C14: a store through an exclusive borrow goes to a position below len and
\* changes the value of that element only: a get of that position then returns
\* the stored value, and len, the cells that own an element, the identity of
\* every element and every other cell are unchanged.
StoreFrame ==
    [][(owner = "vec" /\ ret'.op \in MutOps /\ ret'.index >= 0) =>
          /\ ret'.index < arr_vec.len
          /\ get(arr_vec', ret'.index).ret.tag = "Some"
          /\ get(arr_vec', ret'.index).ret.val = ret'.value
          /\ arr_vec'.len = arr_vec.len
          /\ \A i \in Cells :
                /\ arr_vec'.values[i].init = arr_vec.values[i].init
                /\ arr_vec'.values[i].id = arr_vec.values[i].id
                /\ i # ret'.index => arr_vec'.values[i] = arr_vec.values[i]]_vars

\* C14 witness: a store through iter_mut has changed the second of two elements.
StoreFrameWitness ==
    /\ owner = "vec" /\ ret.op = "iter_mut"
    /\ ret.index = 1 /\ arr_vec.len = 2
    /\ arr_vec.values[1].val = ret.value /\ ret.value > Bump
    /\ arr_vec.values[0].val < Bump

\* C17: while the owning iterator lives, 0 <= index <= len <= N, the cells
\* index..len-1 own an element, the cells below index own none and their
\* elements were yielded by next, and the cells from len on own none; so the
\* assertion index <= len of its destructor does not fail.
IterInvariant ==
    /\ owner = "iter" =>
          /\ 0 <= arr_iter.index /\ arr_iter.index <= arr_iter.len /\ arr_iter.len <= N
          /\ \A i \in Cells :
                /\ arr_iter.values[i].init <=> (arr_iter.index <= i /\ i < arr_iter.len)
                /\ i < arr_iter.index => Count(Yielded, arr_iter.values[i].id) = 1
          /\ Len(Yielded) = arr_iter.index
    /\ ret.op = "drop_iter" => ret.tag = "Unit"

\* C17 witness: the iterator is exhausted, next was called again after that,
\* and elements were yielded.
IterInvariantWitness ==
    /\ owner = "iter"
    /\ arr_iter.len = N /\ arr_iter.index = N
    /\ extraNext >= 1

\* C20: size_hint reports, as lower and as upper bound alike, the number of
\* elements still to be yielded: the len of the consumed container minus the
\* elements next has yielded so far; so len right after into_iter, one less
\* after each successful next, and (0, Some(0)) from exhaustion on.
SizeHintExact ==
    owner = "iter" =>
        LET left == arr_vec.len - Len(Yielded)
            h == size_hint(arr_iter).ret
        IN  /\ h.tag = "Hint" /\ h.view = <<left, left>>
            /\ ret.op = "size_hint" => (ret.tag = "Hint" /\ ret.view = <<left, left>>)
            /\ ret.op = "into_iter" => h.view = <<arr_vec.len, arr_vec.len>>
            /\ extraNext > 0 => h.view = <<0, 0>>

\* C20 witness: size_hint was called after one of three elements was yielded.
SizeHintExactWitness ==
    /\ owner = "iter" /\ ret.op = "size_hint"
    /\ arr_vec.len = N /\ Len(Yielded) = 1
    /\ ret.view = <<N - 1, N - 1>>

\* C18: the loop that calls next until it returns None terminates, for every
\* len in 0..N: next returns None at the call after the len-th element, that is
\* after exactly len elements were yielded and at the (len+1)-th call.
LoopTerminates ==
    /\ (owner = "iter") ~> Broke
    /\ [](Broke => /\ Len(Yielded) = arr_vec.len
                   /\ Len(Yielded) = arr_iter.len
                   /\ Len(Yielded) + extraNext = arr_iter.len + 1)
    /\ [](owner = "iter" => Len(Yielded) + extraNext <= arr_vec.len + 1)

\* C18 witness: the loop over a full container has broken after N elements.
LoopTerminatesWitness ==
    /\ owner = "iter" /\ Broke
    /\ arr_iter.len = N /\ Len(Yielded) = N /\ extraNext = 1

\* The elements of the container, cell 0 first.
LiveElements == [k \in 1..arr_vec.len |-> bits(cell(arr_vec, k - 1))]

\* C19: under any interleaving of calls the container is a bounded stack of
\* capacity N: its live prefix is the content of the reference stack, try_push
\* fails exactly when the reference stack holds N items, and pop returns the
\* top of the reference stack, or None exactly when the reference stack is empty.
BoundedStack ==
    /\ [](owner = "vec" => (Len(stack) = arr_vec.len /\ LiveElements = stack))
    /\ [][(owner = "vec" /\ ret'.op = "try_push" /\ nextId' # nextId) =>
            /\ ret'.tag = "Err" <=> Len(stack) = N
            /\ ret'.tag = "Ok" <=> Len(stack) < N]_vars
    /\ [][(owner = "vec" /\ ret'.op = "pop") =>
            IF stack = <<>>
            THEN ret'.tag = "None"
            ELSE /\ ret'.tag = "Some"
                 /\ ret'.id = stack[Len(stack)].id
                 /\ ret'.val = stack[Len(stack)].val]_vars

\* C19 witness: after pushes, a pop and more pushes the container is full and
\* a pop has returned the element pushed last.
BoundedStackWitness ==
    /\ owner = "vec" /\ shape = "other"
    /\ ret.op = "pop" /\ ret.tag = "Some" /\ ret.id = MaxPush
    /\ Len(stack) = N - 1 /\ Len(handed) = 2

Min(a, b) == IF a <= b THEN a ELSE b

\* C15: building a container of capacity N from a source of s items gives len
\* min(N, s), cells 0..len-1 holding the first min(N, s) source items in source
\* order, the other cells untouched, and no error; the items beyond capacity
\* are not stored.
BuildTruncates ==
    [][(ret.op = "new" /\ ret'.op = "from_iter") =>
          LET s == ret'.value
              m == Min(N, s)
          IN  /\ ret'.tag = "Unit"
              /\ arr_vec'.len = m
              /\ \A i \in Cells :
                    arr_vec'.values[i] =
                        IF i < m THEN [id |-> nextId + i, val |-> nextId + i, init |-> TRUE]
                                 ELSE uninit
              /\ pushedOk' = [k \in 1..m |-> [id |-> nextId + k - 1, val |-> nextId + k - 1]]
              /\ dropLog' = dropLog /\ handed' = handed]_vars

\* C15 witness: a source longer than the capacity was built from, and the
\* container is full with the first N items.
BuildTruncatesWitness ==
    /\ owner = "vec" /\ ret.op = "from_iter"
    /\ ret.value = MaxSrc /\ ret.value > N
    /\ arr_vec.len = N /\ arr_vec.values[N - 1].id = N

\* C16: extend on a container holding l items with a source of s items absorbs
\* exactly min(N - l, s) items: len becomes min(N, l + s), the first l cells are
\* unchanged, the next cells hold the first min(N - l, s) source items in source
\* order, the remaining cells are unchanged, and no error is reported.
ExtendTruncates ==
    [][(owner = "vec" /\ ret'.op = "extend") =>
          LET l == arr_vec.len
              s == ret'.value
              a == Min(N - l, s)
          IN  /\ ret'.tag = "Unit"
              /\ arr_vec'.len = Min(N, l + s)
              /\ arr_vec'.len = l + a
              /\ \A i \in Cells :
                    arr_vec'.values[i] =
                        IF l <= i /\ i < l + a
                        THEN [id |-> nextId + (i - l), val |-> nextId + (i - l), init |-> TRUE]
                        ELSE arr_vec.values[i]
              /\ nextId' = nextId + a
              /\ dropLog' = dropLog /\ handed' = handed]_vars

\* C16 witness: a container that held elements before absorbed a source of
\* three items up to its capacity, after a pop had made room for one.
ExtendTruncatesWitness ==
    /\ owner = "vec" /\ ret.op = "extend"
    /\ ret.value = 3 /\ arr_vec.len = N
    /\ Len(handed) = 1 /\ handed[1].id = N
    /\ arr_vec.values[N - 1].id = N + 1 /\ nextId = N + 2

\* The first n elements of a container, cell 0 first.
Prefix(self, n) == [k \in 1..n |-> bits(cell(self, k - 1))]

\* C21: a successful try_push changes only cell len (the old len) and len
\* itself, every other cell staying as it was; a successful pop changes only
\* len and the liveness of cell len-1, the bits of that cell and every other
\* cell staying as they were; so a successful try_push(v) immediately followed
\* by pop returns v and restores the previous len and live elements.
FrameRoundTrip ==
    /\ [][(owner = "vec" /\ ret'.op = "try_push" /\ ret'.tag = "Ok") =>
            LET l == arr_vec.len
            IN  /\ arr_vec'.len = l + 1
                /\ arr_vec'.values[l] = [id |-> nextId, val |-> nextId, init |-> TRUE]
                /\ \A i \in Cells \ {l} : arr_vec'.values[i] = arr_vec.values[i]
                /\ Prefix(arr_vec', l) = LiveElements]_vars
    /\ [][(owner = "vec" /\ ret'.op = "pop" /\ ret'.tag = "Some") =>
            LET l == arr_vec.len
            IN  /\ arr_vec'.len = l - 1
                /\ arr_vec.values[l - 1].init /\ ~arr_vec'.values[l - 1].init
                /\ bits(arr_vec'.values[l - 1]) = bits(arr_vec.values[l - 1])
                /\ \A i \in Cells \ {l - 1} : arr_vec'.values[i] = arr_vec.values[i]
                /\ LiveElements' = Prefix(arr_vec, l - 1)]_vars
    /\ [][(owner = "vec" /\ ret.op = "try_push" /\ ret.tag = "Ok" /\ ret'.op = "pop") =>
            /\ ret'.tag = "Some" /\ ret'.id = ret.value /\ ret'.val = ret.value
            /\ arr_vec'.len = arr_vec.len - 1
            /\ LiveElements' = Prefix(arr_vec, arr_vec.len - 1)]_vars
    /\ [](owner = "vec" =>
            LET v == [id |-> nextId, val |-> nextId]
                p == try_push(arr_vec, v)
                q == pop(p.self)
            IN  p.ret.tag = "Ok" =>
                    /\ q.ret = Some(v)
                    /\ q.self.len = arr_vec.len
                    /\ Prefix(q.self, q.self.len) = LiveElements
                    /\ \A i \in Cells \ {arr_vec.len} : q.self.values[i] = arr_vec.values[i])

\* C21 witness: after push, push, pop, a third element was pushed over the
\* cell the pop had vacated and popped at once: it came back, the container
\* holds the one element it held before, and the cell keeps the bits.
FrameRoundTripWitness ==
    /\ owner = "vec" /\ shape = "other"
    /\ ret.op = "pop" /\ ret.tag = "Some" /\ ret.id = 3 /\ nextId = 4
    /\ Len(handed) = 2 /\ handed[1].id = 2 /\ handed[2].id = 3
    /\ arr_vec.len = 1
    /\ arr_vec.values[0] = [id |-> 1, val |-> 1, init |-> TRUE]
    /\ arr_vec.values[1] = [id |-> 3, val |-> 3, init |-> FALSE]

====
